---------------------------- MODULE Spec2Model ----------------------------
(***************************************************************************)
(* A model of the KMZ generator (src/app.py): the value normalizers, the   *)
(* line builder add_lines_with_autosplit, the construction of the Notes    *)
(* hide flags and the StyleMap post-processing of the Notes folder.        *)
(*                                                                         *)
(* Text is a sequence of one-character strings.  Python's None and a blank *)
(* (NaN) spreadsheet cell are the one-element sequences None and NaN,      *)
(* whose element is no character, so that they compare with text.          *)
(***************************************************************************)
EXTENDS Integers, Sequences, FiniteSets, TLC

VARIABLES
    \* normalize_agm_name
    raw_name,        \* the Name cell handed to normalize_agm_name
    agm_name,        \* its result
    agm_pc,          \* "call" before the call, "done" after it
    \* add_lines_with_autosplit
    df,              \* the sheet: a sequence of rows
    has_color_col,   \* color_col in df.columns
    chosen_color,    \* the colour text chosen for the sheet, or None
    created_any,
    seg,             \* the coordinate buffer
    seg_rows,        \* auxiliary: the row index each point of seg came from
    prev,            \* the last accepted point, or NoPoint
    li,              \* index of the row the loop reads next
    folder,          \* the features of the folder, in creation order
    lpc,             \* "call", "loop" or "done"
    \* Generate KMZ: the Notes sheet and the post-processing of the document
    df_agms,         \* the AGMs sheet: a sequence of rows
    df_notes,        \* the Notes sheet: a sequence of rows
    has_hide_col,    \* the sheet has a HideNameUntilMouseOver column
    notes_flags_by_name,  \* dict: placemark name -> hide until hover
    raw_kml,         \* the document handed to the post-processing
    modified_kml,    \* the document it returns
    npc              \* "flags", "build", "inject" or "done"

agm_vars == <<raw_name, agm_name, agm_pc>>

line_vars == <<df, has_color_col, chosen_color, created_any, seg, seg_rows,
               prev, li, folder, lpc>>

note_vars == <<df_agms, df_notes, has_hide_col, notes_flags_by_name, raw_kml,
               modified_kml, npc>>

vars == <<agm_vars, line_vars, note_vars>>

\* what the steps of one part of the program leave alone
not_agm_vars == <<line_vars, note_vars>>
not_line_vars == <<agm_vars, note_vars>>
not_note_vars == <<agm_vars, line_vars>>

-----------------------------------------------------------------------------
(* Bounds *)

MaxLen == 4          \* longest Name cell given to normalize_agm_name
MaxRows == 5         \* most rows of an Access or Centerline sheet
MaxNotes == 2        \* most rows of a Notes sheet
MaxPlacemarks == 2   \* most placemarks of the Notes folder of a document

-----------------------------------------------------------------------------
(* Text *)

None == <<"None">>
NaN == <<"NaN">>

Digits == {"0", "1", "2", "3", "4", "5", "6", "7", "8", "9"}

DigitVal(c) ==
    CASE c = "0" -> 0 [] c = "1" -> 1 [] c = "2" -> 2 [] c = "3" -> 3
      [] c = "4" -> 4 [] c = "5" -> 5 [] c = "6" -> 6 [] c = "7" -> 7
      [] c = "8" -> 8 [] c = "9" -> 9

DigitChar(n) == <<"0", "1", "2", "3", "4", "5", "6", "7", "8", "9">>[n + 1]

AllDigits(s) == \A k \in 1..Len(s) : s[k] \in Digits

RECURSIVE LStrip(_)
LStrip(s) == IF s # <<>> /\ Head(s) = " " THEN LStrip(Tail(s)) ELSE s

RECURSIVE RStrip(_)
RStrip(s) ==
    IF s # <<>> /\ s[Len(s)] = " " THEN RStrip(SubSeq(s, 1, Len(s) - 1)) ELSE s

\* str.strip()
Strip(s) == RStrip(LStrip(s))

\* str.zfill(width): zeros go after a leading sign
RECURSIVE zfill(_, _)
zfill(s, width) ==
    IF Len(s) >= width THEN s
    ELSE IF s # <<>> /\ Head(s) = "-" THEN <<"-">> \o zfill(Tail(s), width - 1)
    ELSE zfill(<<"0">> \o s, width)

\* the value of a digit string ("" is 0)
RECURSIVE DigitsToNat(_)
DigitsToNat(s) ==
    IF s = <<>> THEN 0
    ELSE 10 * DigitsToNat(SubSeq(s, 1, Len(s) - 1)) + DigitVal(s[Len(s)])

\* str(i) of a natural number
RECURSIVE NatToStr(_)
NatToStr(n) ==
    IF n < 10 THEN <<DigitChar(n)>>
    ELSE NatToStr(n \div 10) \o <<DigitChar(n % 10)>>

\* str(i) of an integer
IntToStr(i) == IF i < 0 THEN <<"-">> \o NatToStr(0 - i) ELSE NatToStr(i)

safe_str(val) ==
    IF val = NaN \/ val = None THEN None
    ELSE LET s == Strip(val) IN IF s # <<>> THEN s ELSE None

-----------------------------------------------------------------------------
(* float(s) on the texts of the model: an optional "-", then digits with   *)
(* at most one "." and at least one digit.                                 *)

Unsigned(s) == IF s # <<>> /\ Head(s) = "-" THEN Tail(s) ELSE s

DotAt(s) == IF \E k \in 1..Len(s) : s[k] = "."
            THEN CHOOSE k \in 1..Len(s) : s[k] = "." ELSE 0

IntPart(s) == LET u == Unsigned(s)
              IN  IF DotAt(u) = 0 THEN u ELSE SubSeq(u, 1, DotAt(u) - 1)

FracPart(s) == LET u == Unsigned(s)
               IN  IF DotAt(u) = 0 THEN <<>> ELSE SubSeq(u, DotAt(u) + 1, Len(u))

\* float(s) does not raise
FloatParses(s) ==
    LET u == Unsigned(s)
    IN  /\ Cardinality({k \in 1..Len(u) : u[k] = "."}) <= 1
        /\ AllDigits(IntPart(s)) /\ AllDigits(FracPart(s))
        /\ Len(IntPart(s)) + Len(FracPart(s)) >= 1

\* float(s).is_integer()
FloatIsInteger(s) == \A k \in 1..Len(FracPart(s)) : FracPart(s)[k] = "0"

\* int(float(s)) when float(s).is_integer()
FloatToInt(s) ==
    IF s # <<>> /\ Head(s) = "-" THEN 0 - DigitsToNat(IntPart(s))
    ELSE DigitsToNat(IntPart(s))

-----------------------------------------------------------------------------
(* normalize_agm_name *)

\* re.fullmatch(r"0+\d+", s)
MatchesLeadingZeros(s) == Len(s) >= 2 /\ s[1] = "0" /\ AllDigits(s)

\* re.fullmatch(r"\d+", s)
MatchesDigits(s) == Len(s) >= 1 /\ AllDigits(s)

normalize_agm_name_unpadded(raw) ==
    LET s == safe_str(raw)
    IN  IF s = None THEN <<>>
        ELSE IF MatchesDigits(s)
             THEN IF Len(s) >= 4 THEN s
                  ELSE IF Len(s) < 3 THEN zfill(s, 3) ELSE s
        ELSE IF FloatParses(s) /\ FloatIsInteger(s)
             THEN LET s_digits == IntToStr(FloatToInt(s))
                  IN  IF Len(s_digits) < 3 THEN zfill(s_digits, 3) ELSE s_digits
        ELSE s

normalize_agm_name(raw) ==
    LET s == safe_str(raw)
    IN  IF s = None THEN <<>>
        ELSE IF MatchesLeadingZeros(s) THEN s
        ELSE IF MatchesDigits(s)
             THEN IF Len(s) >= 4 THEN s
                  ELSE IF Len(s) < 3 THEN zfill(s, 3) ELSE s
        ELSE IF FloatParses(s) /\ FloatIsInteger(s)
             THEN LET s_digits == IntToStr(FloatToInt(s))
                  IN  IF Len(s_digits) < 3 THEN zfill(s_digits, 3) ELSE s_digits
        ELSE s

\* the characters of the Name cells of the model
NameChars == {"0", "1", "7", ".", "-", "x", " "}

AgmStart ==
    /\ \/ raw_name = NaN
       \/ \E n \in 0..MaxLen : raw_name \in [1..n -> NameChars]
    /\ agm_name = None
    /\ agm_pc = "call"

\* add_agm_point: name_val = normalize_agm_name(row.get("Name"))
NormalizeAgmName ==
    /\ agm_pc = "call"
    /\ agm_name' = normalize_agm_name(raw_name)
    /\ agm_pc' = "done"
    /\ UNCHANGED raw_name
    /\ UNCHANGED not_agm_vars

AgmNext == NormalizeAgmName

-----------------------------------------------------------------------------
(* Claims about normalize_agm_name *)

LeadingZeroDigits(s) == s # NaN /\ Len(s) >= 1 /\ AllDigits(s) /\ s[1] = "0"

\* C7 as stated: every non-empty digit string whose first character is "0"
\* (any length >= 1) is returned unchanged by normalize_agm_name.
C7_AsStated ==
    (agm_pc = "done" /\ LeadingZeroDigits(raw_name)) => agm_name = raw_name

\* C7 amended: every digit string of length >= 2 whose first character is
\* "0" is returned unchanged by normalize_agm_name, and the one-character
\* string "0" is zero-padded to "000".
C7_LeadingZeroKept ==
    (agm_pc = "done" /\ LeadingZeroDigits(raw_name)) =>
        IF Len(raw_name) >= 2 THEN agm_name = raw_name
        ELSE agm_name = <<"0", "0", "0">>

C7_Witness ==
    /\ agm_pc = "done"
    /\ LeadingZeroDigits(raw_name)
    /\ Len(raw_name) = 2
    /\ raw_name[2] # "0"
    /\ agm_name = raw_name

-----------------------------------------------------------------------------
(* Colours *)

UpperChars == <<"A", "B", "C", "D", "E", "F", "G", "H", "I", "J", "K", "L", "M",
                "N", "O", "P", "Q", "R", "S", "T", "U", "V", "W", "X", "Y", "Z">>
LowerChars == <<"a", "b", "c", "d", "e", "f", "g", "h", "i", "j", "k", "l", "m",
                "n", "o", "p", "q", "r", "s", "t", "u", "v", "w", "x", "y", "z">>

LowerChar(c) ==
    IF \E k \in 1..26 : UpperChars[k] = c
    THEN LowerChars[CHOOSE k \in 1..26 : UpperChars[k] = c] ELSE c

\* str.lower()
Lower(s) == [k \in 1..Len(s) |-> LowerChar(s[k])]

HexChars == Digits \cup {"a", "b", "c", "d", "e", "f", "A", "B", "C", "D", "E", "F"}

KML_COLOR_MAP ==
    { <<<<"r", "e", "d">>,                <<"f", "f", "0", "0", "0", "0", "f", "f">>>>,
      <<<<"b", "l", "u", "e">>,           <<"f", "f", "f", "f", "0", "0", "0", "0">>>>,
      <<<<"y", "e", "l", "l", "o", "w">>, <<"f", "f", "0", "0", "f", "f", "f", "f">>>>,
      <<<<"p", "u", "r", "p", "l", "e">>, <<"f", "f", "8", "0", "0", "0", "8", "0">>>>,
      <<<<"g", "r", "e", "e", "n">>,      <<"f", "f", "0", "0", "f", "f", "0", "0">>>>,
      <<<<"o", "r", "a", "n", "g", "e">>, <<"f", "f", "0", "0", "8", "c", "f", "f">>>>,
      <<<<"w", "h", "i", "t", "e">>,      <<"f", "f", "f", "f", "f", "f", "f", "f">>>>,
      <<<<"b", "l", "a", "c", "k">>,      <<"f", "f", "0", "0", "0", "0", "0", "0">>>> }

\* Returns the 8-character KML colour, or None.
normalize_color_value(val) ==
    LET c == safe_str(val)
        cl == Lower(c)
    IN  IF c = None THEN None
        ELSE IF \E e \in KML_COLOR_MAP : e[1] = cl
             THEN (CHOOSE e \in KML_COLOR_MAP : e[1] = cl)[2]
        ELSE IF Len(c) = 8 /\ \A k \in 1..8 : c[k] \in HexChars THEN Lower(c)
        ELSE None

-----------------------------------------------------------------------------
(* Sheets of coordinates.  A Latitude or Longitude cell is blank, a text   *)
(* that float() rejects, or a number in hundredths of a degree.            *)

BlankCell == [t |-> "nan", v |-> 0]
BadCell == [t |-> "str", v |-> 0]
Num(n) == [t |-> "num", v |-> n]

\* pd.isna(cell)
isna(cell) == cell.t = "nan"

\* float(cell) does not raise
Parses(cell) == cell.t = "num"

NoPoint == <<>>

\* three places: PB is 4448 m from PA and 4585 m from PC, PA is 8965 m from PC
PA == [Latitude |-> Num(0), Longitude |-> Num(2)]
PB == [Latitude |-> Num(4), Longitude |-> Num(2)]
PC == [Latitude |-> Num(8), Longitude |-> Num(3)]

CoordCells ==
    { PA, PB, PC,
      [Latitude |-> BlankCell, Longitude |-> Num(2)],
      [Latitude |-> Num(0),    Longitude |-> BlankCell],
      [Latitude |-> BadCell,   Longitude |-> Num(2)] }

WithColor(c, color) ==
    [Latitude |-> c.Latitude, Longitude |-> c.Longitude, LineStringColor |-> color]

\* the colour cells of the model: blank, one space, a padded name in mixed
\* case, a text that is no colour, and eight hexadecimal digits
ColorCells ==
    { NaN,
      <<" ">>,
      <<" ", "R", "e", "d", " ">>,
      <<"z", "z">>,
      <<"F", "F", "0", "0", "8", "c", "f", "f">> }

\* a route of two or more stretches: PB, PA, then far away PC, PB, PA, ...
RoutePoint(k) == <<PB, PA, PC>>[((k - 1) % 3) + 1]

\* a sheet without a colour column, of any rows
CoordSheet(r) == [k \in DOMAIN r |-> WithColor(r[k], NaN)]

\* a sheet along the route, with any colour column
ColorSheet(c) == [k \in DOMAIN c |-> WithColor(RoutePoint(k), c[k])]

-----------------------------------------------------------------------------
(* haversine_m, in whole metres rounded up, so that a comparison with a    *)
(* whole number of metres is that of the exact distance.  Within a tenth   *)
(* of a degree of latitude 0 and longitude 0, where the sheets of the      *)
(* model lie, the great-circle distance is R * sqrt(dphi^2 + dl^2) to      *)
(* within a millionth of itself.                                           *)

\* (R * pi / 18000)^2: the square of the metres in a hundredth of a degree
SqMetresPerUnit == 1236431

RECURSIVE IsqrtIn(_, _, _)
IsqrtIn(n, lo, hi) ==
    IF lo >= hi THEN lo
    ELSE LET mid == (lo + hi + 1) \div 2
         IN  IF mid * mid <= n THEN IsqrtIn(n, mid, hi) ELSE IsqrtIn(n, lo, mid - 1)

\* the least r with r * r >= n
CeilSqrt(n) == LET r == IsqrtIn(n, 0, 46000) IN IF r * r = n THEN r ELSE r + 1

haversine_m(lat1, lon1, lat2, lon2) ==
    CeilSqrt(((lat2 - lat1) * (lat2 - lat1) + (lon2 - lon1) * (lon2 - lon1))
             * SqMetresPerUnit)

split_jump_m == 5000

-----------------------------------------------------------------------------
(* add_lines_with_autosplit *)

\* df[color_col].dropna().astype(str).str.strip()
NonNullColors(rows) ==
    LET RECURSIVE Go(_)
        Go(k) == IF k > Len(rows) THEN <<>>
                 ELSE IF rows[k].LineStringColor = NaN THEN Go(k + 1)
                 ELSE <<Strip(rows[k].LineStringColor)>> \o Go(k + 1)
    IN  Go(1)

\* the value chosen_color has when the loop starts
ChosenColor(rows, has_col) ==
    IF has_col /\ Len(NonNullColors(rows)) > 0 THEN NonNullColors(rows)[1] ELSE None

NewLineString(coords, rows) ==
    [kind |-> "LineString", coords |-> coords, rows |-> rows,
     color |-> None, width |-> 0]

set_linestring_style(ls, color_value) ==
    LET col == normalize_color_value(color_value)
    IN  IF col = None THEN ls
        ELSE [ls EXCEPT !.color = col, !.width = 3]

\* flush, were it to drop a last point equal to the first
flush_drop_closing(fld, segment, rows, color) ==
    IF Len(segment) < 2 THEN fld
    ELSE LET n == IF segment[Len(segment)] = segment[1]
                  THEN Len(segment) - 1 ELSE Len(segment)
             ls == NewLineString(SubSeq(segment, 1, n), SubSeq(rows, 1, n))
         IN  IF color # None /\ color # <<>>
             THEN Append(fld, set_linestring_style(ls, color))
             ELSE Append(fld, ls)

\* the folder after flush(segment)
flush(fld, segment, rows, color) ==
    IF Len(segment) < 2 THEN fld
    ELSE LET ls == NewLineString(segment, rows)
         IN  IF color # None /\ color # <<>>
             THEN Append(fld, set_linestring_style(ls, color))
             ELSE Append(fld, ls)

\* created_any after flush(segment)
flushed_any(any, segment) == any \/ Len(segment) >= 2

LinesStart ==
    /\ \E n \in 0..MaxRows :
          \/ \E r \in [1..n -> CoordCells] :
                df = CoordSheet(r) /\ has_color_col = FALSE
          \/ \E c \in [1..n -> ColorCells] :
                df = ColorSheet(c) /\ has_color_col = TRUE
    /\ chosen_color = None
    /\ created_any = FALSE
    /\ seg = <<>>
    /\ seg_rows = <<>>
    /\ prev = NoPoint
    /\ li = 0
    /\ folder = <<>>
    /\ lpc = "call"

\* if df is None or df.empty: return False
ReturnEmpty ==
    /\ lpc = "call"
    /\ df = <<>>
    /\ lpc' = "done"
    /\ UNCHANGED <<df, has_color_col, chosen_color, created_any, seg, seg_rows,
                   prev, li, folder>>
    /\ UNCHANGED not_line_vars

\* the colour is chosen once, before the first row is read
ChooseColor ==
    /\ lpc = "call"
    /\ df # <<>>
    /\ chosen_color' = ChosenColor(df, has_color_col)
    /\ li' = 1
    /\ lpc' = "loop"
    /\ UNCHANGED <<df, has_color_col, created_any, seg, seg_rows, prev, folder>>
    /\ UNCHANGED not_line_vars

InLoop == lpc = "loop" /\ li <= Len(df)

Blank(row) == isna(row.Latitude) \/ isna(row.Longitude)

Point(row) == <<row.Longitude.v, row.Latitude.v>>

Jump(p, q) == haversine_m(p[2], p[1], q[2], q[1])

\* a row with a blank Latitude or Longitude: a hard break
HardBreak_Continue ==
    /\ InLoop
    /\ Blank(df[li])
    /\ li' = li + 1
    /\ UNCHANGED <<df, has_color_col, chosen_color, created_any, seg, seg_rows,
                   prev, folder, lpc>>
    /\ UNCHANGED not_line_vars

HardBreak ==
    /\ InLoop
    /\ Blank(df[li])
    /\ folder' = flush(folder, seg, seg_rows, chosen_color)
    /\ created_any' = flushed_any(created_any, seg)
    /\ seg' = <<>>
    /\ seg_rows' = <<>>
    /\ prev' = NoPoint
    /\ li' = li + 1
    /\ UNCHANGED <<df, has_color_col, chosen_color, lpc>>
    /\ UNCHANGED not_line_vars

\* float(lon) or float(lat) raises: the row is skipped
SkipUnparseable_Break ==
    /\ InLoop
    /\ ~Blank(df[li])
    /\ ~(Parses(df[li].Longitude) /\ Parses(df[li].Latitude))
    /\ folder' = flush(folder, seg, seg_rows, chosen_color)
    /\ created_any' = flushed_any(created_any, seg)
    /\ seg' = <<>>
    /\ seg_rows' = <<>>
    /\ prev' = NoPoint
    /\ li' = li + 1
    /\ UNCHANGED <<df, has_color_col, chosen_color, lpc>>
    /\ UNCHANGED not_line_vars

SkipUnparseable ==
    /\ InLoop
    /\ ~Blank(df[li])
    /\ ~(Parses(df[li].Longitude) /\ Parses(df[li].Latitude))
    /\ li' = li + 1
    /\ UNCHANGED <<df, has_color_col, chosen_color, created_any, seg, seg_rows,
                   prev, folder, lpc>>
    /\ UNCHANGED not_line_vars

Valid(row) == ~Blank(row) /\ Parses(row.Longitude) /\ Parses(row.Latitude)

\* pt == prev: an exact duplicate is skipped
SkipDuplicate_Keep ==
    /\ InLoop
    /\ Valid(df[li])
    /\ prev # NoPoint
    /\ Point(df[li]) = prev
    /\ seg' = Append(seg, Point(df[li]))
    /\ seg_rows' = Append(seg_rows, li)
    /\ li' = li + 1
    /\ UNCHANGED <<df, has_color_col, chosen_color, created_any, prev, folder, lpc>>
    /\ UNCHANGED not_line_vars

SkipDuplicate ==
    /\ InLoop
    /\ Valid(df[li])
    /\ prev # NoPoint
    /\ Point(df[li]) = prev
    /\ li' = li + 1
    /\ UNCHANGED <<df, has_color_col, chosen_color, created_any, seg, seg_rows,
                   prev, folder, lpc>>
    /\ UNCHANGED not_line_vars

\* jump > split_jump_m: the buffer is flushed and the point starts a new one
SoftBreak_NoSplit ==
    /\ InLoop
    /\ Valid(df[li])
    /\ prev # NoPoint
    /\ Point(df[li]) # prev
    /\ Jump(prev, Point(df[li])) > split_jump_m
    /\ seg' = Append(seg, Point(df[li]))
    /\ seg_rows' = Append(seg_rows, li)
    /\ prev' = Point(df[li])
    /\ li' = li + 1
    /\ UNCHANGED <<df, has_color_col, chosen_color, created_any, folder, lpc>>
    /\ UNCHANGED not_line_vars

SoftBreak ==
    /\ InLoop
    /\ Valid(df[li])
    /\ prev # NoPoint
    /\ Point(df[li]) # prev
    /\ Jump(prev, Point(df[li])) > split_jump_m
    /\ folder' = flush(folder, seg, seg_rows, chosen_color)
    /\ created_any' = flushed_any(created_any, seg)
    /\ seg' = <<Point(df[li])>>
    /\ seg_rows' = <<li>>
    /\ prev' = Point(df[li])
    /\ li' = li + 1
    /\ UNCHANGED <<df, has_color_col, chosen_color, lpc>>
    /\ UNCHANGED not_line_vars

\* the point joins the buffer
AppendPoint ==
    /\ InLoop
    /\ Valid(df[li])
    /\ \/ prev = NoPoint
       \/ /\ prev # NoPoint
          /\ Point(df[li]) # prev
          /\ ~(Jump(prev, Point(df[li])) > split_jump_m)
    /\ seg' = Append(seg, Point(df[li]))
    /\ seg_rows' = Append(seg_rows, li)
    /\ prev' = Point(df[li])
    /\ li' = li + 1
    /\ UNCHANGED <<df, has_color_col, chosen_color, created_any, folder, lpc>>
    /\ UNCHANGED not_line_vars

\* after the last row: flush(seg); return created_any
FinalFlush ==
    /\ lpc = "loop"
    /\ li > Len(df)
    /\ folder' = flush(folder, seg, seg_rows, chosen_color)
    /\ created_any' = flushed_any(created_any, seg)
    /\ lpc' = "done"
    /\ UNCHANGED <<df, has_color_col, chosen_color, seg, seg_rows, prev, li>>
    /\ UNCHANGED not_line_vars

\* folder.newpoint() of add_access_point for row k: the sheets of the model
\* have no Name and no icon column, so the name is "" and no icon is set
NewPoint(coords, k) ==
    [kind |-> "Point", coords |-> <<coords>>, rows |-> <<k>>,
     name |-> <<>>, href |-> None]

\* the folder after add_access_point(folder, rows[k])
add_access_point(fld, rows, k) ==
    IF Blank(rows[k]) THEN fld
    ELSE IF ~(Parses(rows[k].Latitude) /\ Parses(rows[k].Longitude)) THEN fld
    ELSE Append(fld, NewPoint(Point(rows[k]), k))

\* for _, row in df.iterrows(): add_access_point(folder, row)
RECURSIVE AddAccessPoints(_, _, _)
AddAccessPoints(fld, rows, n) ==
    IF n = 0 THEN fld
    ELSE add_access_point(AddAccessPoints(fld, rows, n - 1), rows, n)

\* the caller, were it to add the points whatever the line builder returned
PointFallback_Always ==
    /\ lpc = "done"
    /\ df # <<>>
    /\ folder' = AddAccessPoints(folder, df, Len(df))
    /\ lpc' = "end"
    /\ UNCHANGED <<df, has_color_col, chosen_color, created_any, seg, seg_rows,
                   prev, li>>
    /\ UNCHANGED not_line_vars

\* the caller, for a sheet that is not empty: if not created, every row is
\* given to add_access_point
PointFallback ==
    /\ lpc = "done"
    /\ df # <<>>
    /\ folder' = IF ~created_any THEN AddAccessPoints(folder, df, Len(df))
                 ELSE folder
    /\ lpc' = "end"
    /\ UNCHANGED <<df, has_color_col, chosen_color, created_any, seg, seg_rows,
                   prev, li>>
    /\ UNCHANGED not_line_vars

LinesNext ==
    \/ ReturnEmpty
    \/ ChooseColor
    \/ HardBreak
    \/ SkipUnparseable
    \/ SkipDuplicate
    \/ SoftBreak
    \/ AppendPoint
    \/ FinalFlush
    \/ PointFallback

-----------------------------------------------------------------------------
(* Claims about add_lines_with_autosplit *)

LineStrings == {k \in 1..Len(folder) : folder[k].kind = "LineString"}

BlankRows == {k \in 1..Len(df) : Blank(df[k])}

RowsOf(k) == {folder[k].rows[j] : j \in 1..Len(folder[k].rows)}

\* every coordinate of an emitted path is the (longitude, latitude) of its row
FromItsRows(k) ==
    /\ Len(folder[k].rows) = Len(folder[k].coords)
    /\ \A j \in 1..Len(folder[k].coords) :
          /\ folder[k].rows[j] \in 1..Len(df)
          /\ Valid(df[folder[k].rows[j]])
          /\ folder[k].coords[j] = Point(df[folder[k].rows[j]])

\* C1: a row whose Latitude or Longitude is missing is a hard break: no
\* emitted LineString holds a coordinate of a row before the blank row
\* together with a coordinate of a row after it.
C1_NoPathSpansBlankRow ==
    \A k \in LineStrings :
        /\ FromItsRows(k)
        /\ \A b \in BlankRows :
              ~ \E r1, r2 \in RowsOf(k) : r1 < b /\ b < r2

C1_Witness ==
    /\ lpc = "done"
    /\ \E b \in BlankRows : \E k1, k2 \in LineStrings :
          /\ \A r \in RowsOf(k1) : r < b
          /\ \A r \in RowsOf(k2) : r > b

\* the (longitude, latitude) pairs of the valid rows, in row order
ValidPoints(rows) ==
    LET RECURSIVE Go(_)
        Go(k) == IF k > Len(rows) THEN <<>>
                 ELSE IF Valid(rows[k]) THEN <<Point(rows[k])>> \o Go(k + 1)
                 ELSE Go(k + 1)
    IN  Go(1)

\* pts without the points equal to the point before them
RECURSIVE Dedup(_)
Dedup(pts) ==
    IF Len(pts) <= 1 THEN pts
    ELSE LET d == Dedup(SubSeq(pts, 1, Len(pts) - 1))
         IN  IF pts[Len(pts)] = d[Len(d)] THEN d ELSE Append(d, pts[Len(pts)])

DistinctPoints == Dedup(ValidPoints(df))

\* the sheet forms one segment: no blank row, no jump above the threshold
SingleSegment ==
    /\ BlankRows = {}
    /\ \A k \in 1..(Len(DistinctPoints) - 1) :
          Jump(DistinctPoints[k], DistinctPoints[k + 1]) <= split_jump_m

\* the segment ends on the point it starts from
ClosedLoop ==
    /\ Len(DistinctPoints) >= 3
    /\ DistinctPoints[Len(DistinctPoints)] = DistinctPoints[1]

\* C2 as stated: for a single segment whose last point equals its first,
\* the emitted path leaves out the closing point: its length is the number
\* of points left after consecutive-duplicate removal, less one, and its
\* last coordinate differs from its first.
C2_AsStated ==
    (lpc = "done" /\ SingleSegment /\ ClosedLoop) =>
        /\ Len(folder) = 1
        /\ Len(folder[1].coords) = Len(DistinctPoints) - 1
        /\ folder[1].coords[Len(folder[1].coords)] # folder[1].coords[1]

\* C2 amended: for a single segment whose last point equals its first, the
\* emitted path keeps the closing point: its coordinates are the points
\* left after consecutive-duplicate removal, all of them, so its last
\* coordinate equals its first.
C2_ClosingPointKept ==
    (lpc = "done" /\ SingleSegment /\ ClosedLoop) =>
        /\ Len(folder) = 1
        /\ folder[1].coords = DistinctPoints
        /\ folder[1].coords[Len(folder[1].coords)] = folder[1].coords[1]

C2_Witness ==
    /\ lpc = "done"
    /\ SingleSegment
    /\ ClosedLoop
    /\ Len(ValidPoints(df)) > Len(DistinctPoints)
    /\ Len(folder) = 1
    /\ Len(folder[1].coords) = Len(DistinctPoints)

\* C3: every emitted LineString has at least 2 coordinates and no two
\* consecutive coordinates that are equal, whatever the rows (blank,
\* unparseable, repeated, far apart).
C3_TwoDistinctNeighbours ==
    \A k \in LineStrings :
        /\ Len(folder[k].coords) >= 2
        /\ \A j \in 1..(Len(folder[k].coords) - 1) :
              folder[k].coords[j] # folder[k].coords[j + 1]

\* a repeated point was dropped from a path, and a buffer of one point
\* was dropped whole
C3_Witness ==
    /\ lpc = "done"
    /\ \E r \in 1..(Len(df) - 1) : \E k \in LineStrings :
          /\ Valid(df[r]) /\ Valid(df[r + 1])
          /\ Point(df[r]) = Point(df[r + 1])
          /\ r \in RowsOf(k) /\ (r + 1) \notin RowsOf(k)
    /\ \E r \in 1..Len(df) :
          Valid(df[r]) /\ \A k \in LineStrings : r \notin RowsOf(k)

\* no two neighbours of an emitted path are more than split_jump_m apart
C9_NoLongHop ==
    \A k \in LineStrings :
        \A j \in 1..(Len(folder[k].coords) - 1) :
            Jump(folder[k].coords[j], folder[k].coords[j + 1]) <= split_jump_m

\* a valid point farther than split_jump_m from the last accepted point ends
\* the buffer (emitted when it has 2 points or more) and starts the next one
C9_FarPointStartsBuffer ==
    (/\ InLoop /\ Valid(df[li]) /\ prev # NoPoint
     /\ Jump(prev, Point(df[li])) > split_jump_m)
    => /\ seg' = <<Point(df[li])>>
       /\ prev' = Point(df[li])
       /\ IF Len(seg) >= 2
          THEN /\ Len(folder') = Len(folder) + 1
               /\ SubSeq(folder', 1, Len(folder)) = folder
               /\ folder'[Len(folder')].coords = seg
          ELSE folder' = folder

\* C9: no emitted LineString has two adjacent coordinates farther apart
\* than split_jump_m (5000 m): whenever a valid point is farther than that
\* from the last accepted point, the buffer is flushed and the point starts
\* a new buffer.
C9_SplitOnJump == []C9_NoLongHop /\ [][C9_FarPointStartsBuffer]_line_vars

\* the jump of a soft break lies between two emitted paths
C9_Witness ==
    /\ lpc = "done"
    /\ \E k \in LineStrings : (k + 1) \in LineStrings /\
          LET a == folder[k].coords[Len(folder[k].coords)]
              b == folder[k + 1].coords[1]
          IN  /\ folder[k + 1].rows[1] = folder[k].rows[Len(folder[k].rows)] + 1
              /\ Jump(a, b) > split_jump_m

\* the first cell of the colour column that is neither empty nor only
\* whitespace, or None
FirstNonBlankColor ==
    LET S == {k \in 1..Len(df) : safe_str(df[k].LineStringColor) # None}
    IN  IF has_color_col /\ S # {}
        THEN df[CHOOSE k \in S : \A j \in S : k <= j].LineStringColor
        ELSE None

\* C10 as stated: every path emitted from a sheet has the same colour, the
\* normalized form of the first non-blank value of the colour column, a cell
\* that is empty or only whitespace counting as blank; the path has that
\* colour and width 3, and is unstyled only when that value is no colour.
C10_AsStated ==
    \A k \in LineStrings :
        /\ folder[k].color = normalize_color_value(FirstNonBlankColor)
        /\ folder[k].width =
              IF normalize_color_value(FirstNonBlankColor) = None THEN 0 ELSE 3

\* the Point Features of the folder, in the order they were added
PointFeatures == {k \in 1..Len(folder) : folder[k].kind = "Point"}

\* the rows with a Latitude and a Longitude that are present and numeric
ValidRows ==
    LET RECURSIVE Go(_)
        Go(k) == IF k > Len(df) THEN <<>>
                 ELSE IF Valid(df[k]) THEN <<k>> \o Go(k + 1)
                 ELSE Go(k + 1)
    IN  Go(1)

\* C11: for an Access or Centerline sheet, point fallback happens exactly
\* when the line builder produced no path: if add_lines_with_autosplit
\* emitted no LineString (and returned False), the folder holds one Point
\* Feature for each row with a valid Latitude and Longitude, in row order,
\* at that row's (longitude, latitude); if it emitted a LineString (and
\* returned True), the folder holds no Point Feature.
C11_FallbackIffNoPath ==
    /\ lpc \in {"done", "end"} => (created_any <=> LineStrings # {})
    /\ lpc = "done" => PointFeatures = {}
    /\ lpc = "end" =>
          IF LineStrings = {}
          THEN LET valid == ValidRows
               IN  /\ Len(folder) = Len(valid)
                   /\ \A j \in 1..Len(valid) :
                         /\ folder[j].kind = "Point"
                         /\ folder[j].rows = <<valid[j]>>
                         /\ folder[j].coords = <<Point(df[valid[j]])>>
          ELSE PointFeatures = {}

\* a sheet of separate points, with a blank or an unparseable row, ended
\* with no path and a Point Feature for each of its valid rows
C11_Witness ==
    /\ lpc = "end"
    /\ LineStrings = {}
    /\ Cardinality(PointFeatures) >= 2
    /\ Cardinality(PointFeatures) < Len(df)

\* the rows of the emitted paths, path after path
EmittedRows ==
    LET RECURSIVE Go(_)
        Go(k) == IF k > Len(folder) THEN <<>>
                 ELSE IF folder[k].kind = "LineString" THEN folder[k].rows \o Go(k + 1)
                 ELSE Go(k + 1)
    IN  Go(1)

\* the valid row before r with no blank row between the two, 0 if none:
\* the row of the accepted point r is compared with
RowBefore(r) ==
    LET S == {q \in 1..(r - 1) : /\ Valid(df[q])
                                 /\ \A b \in (q + 1)..(r - 1) : ~Valid(df[b]) /\ ~Blank(df[b])}
    IN  IF S = {} THEN 0 ELSE CHOOSE q \in S : TRUE

\* the next valid row after r with another point and no blank row between
\* the two, 0 if none
RowAfter(r) ==
    LET S == {q \in (r + 1)..Len(df) :
                 /\ Valid(df[q]) /\ Point(df[q]) # Point(df[r])
                 /\ \A b \in (r + 1)..(q - 1) :
                       ~Blank(df[b]) /\ (Valid(df[b]) => Point(df[b]) = Point(df[r]))}
    IN  IF S = {} THEN 0 ELSE CHOOSE q \in S : TRUE

\* the point of row r repeats the accepted point before it
IsDuplicate(r) == RowBefore(r) # 0 /\ Point(df[RowBefore(r)]) = Point(df[r])

\* the segment of row r has no other point
AloneInSegment(r) ==
    /\ RowBefore(r) = 0 \/ Jump(Point(df[RowBefore(r)]), Point(df[r])) > split_jump_m
    /\ RowAfter(r) = 0 \/ Jump(Point(df[r]), Point(df[RowAfter(r)])) > split_jump_m

\* the emitted coordinates are those of valid rows, in file order, each row
\* at most once
C12_OrderedSubsequence ==
    /\ \A k \in LineStrings : FromItsRows(k)
    /\ LET rows == EmittedRows
       IN  \A j \in 1..(Len(rows) - 1) : rows[j] < rows[j + 1]

\* a valid row is left out only as a duplicate or as a segment of one point
C12_AbsentOnlyIf ==
    lpc = "done" =>
        LET rows == EmittedRows
        IN  \A r \in 1..Len(df) :
              (Valid(df[r]) /\ ~ \E j \in 1..Len(rows) : rows[j] = r)
                  => (IsDuplicate(r) \/ AloneInSegment(r))

\* the step on a row that is present but not numeric changes nothing but
\* the row counter
C12_UnparseableSkipped ==
    (InLoop /\ ~Blank(df[li]) /\ ~Valid(df[li]))
    => /\ seg' = seg
       /\ prev' = prev
       /\ folder' = folder
       /\ created_any' = created_any
       /\ li' = li + 1

\* C12: the coordinates of the emitted LineStrings, concatenated in
\* emission order, are an order-preserving subsequence of the (longitude,
\* latitude) pairs of the valid rows in file order, no row contributing to
\* more than one path; the point of a valid row is absent from the output
\* only if it duplicates the accepted point before it or its segment ended
\* with fewer than 2 points; and a row whose coordinates are present but
\* not numeric is skipped without ending the current segment.
C12_PathsFollowRows ==
    /\ [](C12_OrderedSubsequence /\ C12_AbsentOnlyIf)
    /\ [][C12_UnparseableSkipped]_line_vars

\* a path runs over an unparseable row, a duplicate was dropped from a
\* path, and a point alone in its segment was dropped
C12_Witness ==
    /\ lpc = "done"
    /\ \E k \in LineStrings : \E b \in 1..Len(df) :
          /\ ~Blank(df[b]) /\ ~Valid(df[b])
          /\ \E r1, r2 \in RowsOf(k) : r1 < b /\ b < r2
    /\ \E r \in 1..Len(df) :
          /\ Valid(df[r]) /\ IsDuplicate(r)
          /\ \A k \in LineStrings : r \notin RowsOf(k)
    /\ \E r \in 1..Len(df) :
          /\ Valid(df[r]) /\ ~IsDuplicate(r) /\ AloneInSegment(r)
          /\ \A k \in LineStrings : r \notin RowsOf(k)

-----------------------------------------------------------------------------
(* The KML document.  A Document holds the elements written before its     *)
(* first Folder (Style and StyleMap definitions) and then its Folders; a   *)
(* Folder holds Placemarks; a Placemark holds its name, its coordinates,   *)
(* its styleUrl children and its inline Style children.  An id is a text   *)
(* in pieces, a styleUrl is "#" and then an id, an href is a text.         *)

MAP_NOTE_ICON == <<"http://www.earthpoint.us/Dots/GoogleEarth/pal3/icon62.png">>
MAP_NOTE_FALLBACK == <<"https://maps.google.com/mapfiles/kml/pal3/icon54.png">>
RED_X_ICON == <<"http://maps.google.com/mapfiles/kml/pal3/icon56.png">>

StyleEl(id, href, icon_color, scale, color) ==
    [tag |-> "Style", id |-> id, href |-> href, icon_color |-> icon_color,
     scale |-> scale, color |-> color, normal |-> None, highlight |-> None]

StyleMapEl(id, normal, highlight) ==
    [tag |-> "StyleMap", id |-> id, href |-> None, icon_color |-> None,
     scale |-> "", color |-> "", normal |-> normal, highlight |-> highlight]

Pm(name, coords, urls, inline) ==
    [name |-> name, coords |-> coords, styleUrls |-> urls, styles |-> inline]

Url(id) == <<"#">> \o id

\* the id simplekml gives the n-th style it writes
Sid(n) == <<"stylesel_">> \o NatToStr(n)

\* sm_id = f"sm_notes_{i}"
SmId(i) == <<"sm_notes_">> \o NatToStr(i)

Min(S) == CHOOSE k \in S : \A j \in S : k <= j
Max(S) == CHOOSE k \in S : \A j \in S : k >= j

\* the first Folder whose name, stripped and lower-cased, is that of name; 0
\* when there is none
FolderNamed(d, name) ==
    LET S == {k \in 1..Len(d.folders) :
                 /\ d.folders[k].name # None
                 /\ d.folders[k].name # <<>>
                 /\ Lower(Strip(d.folders[k].name)) = Lower(name)}
    IN  IF S = {} THEN 0 ELSE Min(S)

NotesFolder(d, notes_folder_name) ==
    IF FolderNamed(d, notes_folder_name) # 0 THEN FolderNamed(d, notes_folder_name)
    ELSE FolderNamed(d, <<"n", "o", "t", "e", "s">>)

\* href_from_style(style_by_id.get(sid)): of the Document-level Styles with
\* that id the last one counts
href_from_style(d, sid) ==
    LET S == {k \in 1..Len(d.top) :
                 d.top[k].tag = "Style" /\ d.top[k].id # <<>> /\ d.top[k].id = sid}
    IN  IF S = {} THEN None
        ELSE IF d.top[Max(S)].href # None /\ d.top[Max(S)].href # <<>>
             THEN Strip(d.top[Max(S)].href)
        ELSE None

\* with the inline Style skipped
href_from_pm_styleUrl_only(d, pm) ==
    IF /\ pm.styleUrls # <<>>
       /\ Strip(pm.styleUrls[1]) # <<>>
       /\ Head(Strip(pm.styleUrls[1])) = "#"
    THEN href_from_style(d, Tail(Strip(pm.styleUrls[1])))
    ELSE None

href_from_pm(d, pm) ==
    LET S == {k \in 1..Len(pm.styles) : pm.styles[k].href # None}
    IN  IF S # {} /\ pm.styles[Min(S)].href # <<>>
        THEN Strip(pm.styles[Min(S)].href)
        ELSE IF /\ pm.styleUrls # <<>>
                /\ Strip(pm.styleUrls[1]) # <<>>
                /\ Head(Strip(pm.styleUrls[1])) = "#"
             THEN href_from_style(d, Tail(Strip(pm.styleUrls[1])))
        ELSE None

get_name(pm) == IF pm.name = None THEN <<>> ELSE Strip(pm.name)

\* notes_flags_by_name.get(name, True)
FlagOf(flags, name) == IF name \in DOMAIN flags THEN flags[name] ELSE TRUE

\* the (href, hide_flag) of a placemark
PmKey(d, flags, pm) ==
    LET h == href_from_pm(d, pm)
    IN  [href |-> IF h = None \/ h = <<>> THEN MAP_NOTE_FALLBACK ELSE h,
         hide_flag |-> FlagOf(flags, get_name(pm))]

PmInfo(d, flags, pms) == [k \in 1..Len(pms) |-> PmKey(d, flags, pms[k])]

\* one entry for each placemark
PairsPerPlacemark(info) == info

\* the keys of info, each once, in the order of their first placemark
RECURSIVE Pairs(_)
Pairs(info) ==
    IF info = <<>> THEN <<>>
    ELSE LET p == Pairs(SubSeq(info, 1, Len(info) - 1))
             key == info[Len(info)]
         IN  IF \E k \in 1..Len(p) : p[k] = key THEN p ELSE Append(p, key)

\* the three elements built for the i-th pair
StyleMapFor(i, key) ==
    << StyleEl(SmId(i) \o <<"_normal">>, key.href, None,
               IF key.hide_flag THEN "0.01" ELSE "1",
               IF key.hide_flag THEN "00ffffff" ELSE "ffffffff"),
       StyleEl(SmId(i) \o <<"_highlight">>, key.href, None, "1", "ffffffff"),
       StyleMapEl(SmId(i), Url(SmId(i) \o <<"_normal">>),
                  Url(SmId(i) \o <<"_highlight">>)) >>

RECURSIVE BuildStyleMaps(_, _)
BuildStyleMaps(pairs, n) ==
    IF n = 0 THEN <<>>
    ELSE BuildStyleMaps(pairs, n - 1) \o StyleMapFor(n, pairs[n])

\* key_to_smid.get(key): a later pair with the same key replaces an earlier
key_to_smid(pairs, key) ==
    LET S == {k \in 1..Len(pairs) : pairs[k] = key}
    IN  IF S = {} THEN None ELSE SmId(Max(S))

\* a placemark given its StyleMap: its styleUrl and inline Style children
\* are removed and one styleUrl is added
ApplyToPlacemark(d, flags, pairs, pm) ==
    LET smid == key_to_smid(pairs, PmKey(d, flags, pm))
    IN  IF smid = None THEN pm
        ELSE [pm EXCEPT !.styleUrls = <<Url(smid)>>, !.styles = <<>>]

ApplyToFolder(d, flags, pairs, f) ==
    [f EXCEPT !.pms = [j \in 1..Len(f.pms) |->
                          ApplyToPlacemark(d, flags, pairs, f.pms[j])]]

\* with the placemarks of every Folder given a StyleMap
ApplyStyleMapsEverywhere(d, flags, nf, pairs) ==
    [k \in 1..Len(d.folders) |-> ApplyToFolder(d, flags, pairs, d.folders[k])]

\* the Folders after the StyleMaps are applied to the Notes placemarks
ApplyStyleMaps(d, flags, nf, pairs) ==
    [k \in 1..Len(d.folders) |->
        IF k = nf THEN ApplyToFolder(d, flags, pairs, d.folders[k])
        ELSE d.folders[k]]

inject_hover_stylemaps_for_notes_with_flags(d, flags, notes_folder_name) ==
    LET nf == NotesFolder(d, notes_folder_name)
    IN  IF nf = 0 THEN d
        ELSE LET pairs == Pairs(PmInfo(d, flags, d.folders[nf].pms))
             IN  IF pairs = <<>> THEN d
                 ELSE [top |-> d.top \o BuildStyleMaps(pairs, Len(pairs)),
                       folders |-> ApplyStyleMaps(d, flags, nf, pairs)]

NoDoc == [top |-> <<>>, folders |-> <<>>]

NotesName == <<"N", "o", "t", "e", "s">>

\* modified_kml = inject_hover_stylemaps_for_notes_with_flags(raw_kml, ...)
Inject ==
    /\ npc = "inject"
    /\ modified_kml' = inject_hover_stylemaps_for_notes_with_flags(
                           raw_kml, notes_flags_by_name, NotesName)
    /\ npc' = "done"
    /\ UNCHANGED <<df_agms, df_notes, has_hide_col, notes_flags_by_name, raw_kml>>
    /\ UNCHANGED not_note_vars

-----------------------------------------------------------------------------
(* Documents handed to the post-processing *)

NameA == <<"A">>
NameB == <<"B">>

H1 == <<"http://x/a.png">>
H2 == <<"http://x/b.png">>

\* two Document-level Styles, the first with an icon, the second without
DocStyles == << StyleEl(Sid(0), H1, None, "", ""), StyleEl(Sid(1), None, None, "", "") >>

\* a styleUrl into another file
ExtUrl == <<"http://x/styles.kml#s">>

StyleUrlChoices ==
    { <<>>, <<Url(Sid(0))>>, <<Url(Sid(1))>>, <<Url(Sid(9))>>, <<ExtUrl>>,
      <<Url(Sid(0)), Url(Sid(1))>> }

\* placemarks without an inline Style and with each choice of styleUrl
\* children, one with an inline icon and two styleUrl children, and one
\* whose inline Style has no icon
PlacemarkChoices ==
    { Pm(n, <<2, 0>>, u, <<>>) : n \in {NameA, NameB}, u \in StyleUrlChoices }
    \cup { Pm(n, <<2, 0>>, <<Url(Sid(0)), Url(Sid(1))>>, <<[href |-> H2]>>) :
              n \in {NameA, NameB} }
    \cup { Pm(n, <<2, 0>>, <<Url(Sid(0))>>, <<[href |-> None]>>) : n \in {NameA, NameB} }

FlagDicts ==
    { <<>>,
      NameA :> FALSE,
      (NameA :> TRUE) @@ (NameB :> FALSE) }

AgmsFolder ==
    [name |-> <<"A", "G", "M", "s">>,
     pms |-> << Pm(<<"0", "0", "7">>, <<3, 1>>, <<Url(Sid(0))>>, <<[href |-> H2]>>) >>]

\* the Folders of a document around the placemarks pms
FolderChoices(pms) ==
    { << AgmsFolder, [name |-> NotesName, pms |-> pms] >>,
      << [name |-> <<" ", "N", "O", "T", "E", "S", " ">>, pms |-> pms] >>,
      << AgmsFolder, [name |-> <<"A", "c", "c", "e", "s", "s">>, pms |-> pms] >> }

InjectStart ==
    /\ \E n \in 0..MaxPlacemarks : \E pms \in [1..n -> PlacemarkChoices] :
          \E fs \in FolderChoices(pms) : raw_kml = [top |-> DocStyles, folders |-> fs]
    /\ notes_flags_by_name \in FlagDicts
    /\ modified_kml = NoDoc
    /\ npc = "inject"
    /\ df_agms = <<>>
    /\ df_notes = <<>>
    /\ has_hide_col = FALSE

InjectNext == Inject

-----------------------------------------------------------------------------
(* Claims about inject_hover_stylemaps_for_notes_with_flags *)

IsNotesFolder(f) == Lower(Strip(f.name)) = <<"n", "o", "t", "e", "s">>

\* the Notes folder of the document handed in, 0 when it has none
NotesIdx ==
    IF \E k \in 1..Len(raw_kml.folders) : IsNotesFolder(raw_kml.folders[k])
    THEN CHOOSE k \in 1..Len(raw_kml.folders) : IsNotesFolder(raw_kml.folders[k])
    ELSE 0

NotesPmsIn == IF NotesIdx = 0 THEN <<>> ELSE raw_kml.folders[NotesIdx].pms
NotesPmsOut == IF NotesIdx = 0 THEN <<>> ELSE modified_kml.folders[NotesIdx].pms

\* the places of the elements the post-processing added to the Document
Injected == (Len(raw_kml.top) + 1)..Len(modified_kml.top)

InjectedMaps == {k \in Injected : modified_kml.top[k].tag = "StyleMap"}

\* the injected Style elements a styleUrl names
InjectedStyles(url) ==
    {k \in Injected : /\ modified_kml.top[k].tag = "Style"
                      /\ Url(modified_kml.top[k].id) = url}

\* the Document-level Style of the document handed in that a styleUrl names
StyleNamed(url) ==
    {k \in 1..Len(raw_kml.top) : /\ raw_kml.top[k].tag = "Style"
                                 /\ Url(raw_kml.top[k].id) = url}

\* the effective icon reference of a placemark: its inline icon href, else
\* the href of the Document-level Style it references, else the fallback
EffectiveIcon(pm) ==
    IF \E k \in 1..Len(pm.styles) : pm.styles[k].href # None
    THEN pm.styles[CHOOSE k \in 1..Len(pm.styles) : pm.styles[k].href # None].href
    ELSE IF /\ pm.styleUrls # <<>>
            /\ \E k \in StyleNamed(pm.styleUrls[1]) : raw_kml.top[k].href # None
         THEN raw_kml.top[CHOOSE k \in StyleNamed(pm.styleUrls[1]) :
                              raw_kml.top[k].href # None].href
    ELSE MAP_NOTE_FALLBACK

\* the hide flag the dict gives a placemark (hidden when it has no entry)
HideFlag(pm) == FlagOf(notes_flags_by_name, get_name(pm))

\* the injected StyleMaps whose normal Style carries icon h
MapsForIcon(h) ==
    {k \in InjectedMaps :
        \E s \in InjectedStyles(modified_kml.top[k].normal) :
            modified_kml.top[s].href = h}

\* ... and whose normal state hides the label exactly when hidden says so
MapsForPair(h, hidden) ==
    {k \in MapsForIcon(h) :
        \E s \in InjectedStyles(modified_kml.top[k].normal) :
            (modified_kml.top[s].scale = "0.01") = hidden}

\* the icon references and the (icon reference, hide flag) pairs of the
\* placemarks pms
IconsUsed(pms) == {EffectiveIcon(pms[j]) : j \in 1..Len(pms)}

PairsUsed(pms) == {<<EffectiveIcon(pms[j]), HideFlag(pms[j])>> : j \in 1..Len(pms)}

\* C4 as stated: exactly one StyleMap is injected for an icon reference,
\* however many Notes placemarks share that icon reference.
C4_AsStated ==
    npc = "done" =>
        LET used == IconsUsed(NotesPmsIn)
        IN  \A h \in used : Cardinality(MapsForIcon(h)) = 1

\* C4 amended: exactly one StyleMap is injected for each (icon reference,
\* hide flag) pair the Notes placemarks use, however many placemarks share
\* the pair, and none besides; an icon reference used with both hide flags
\* has two StyleMaps, one for each flag.
C4_OneMapPerPair ==
    npc = "done" =>
        LET used == PairsUsed(NotesPmsIn)
        IN  /\ \A p \in used : Cardinality(MapsForPair(p[1], p[2])) = 1
            /\ Cardinality(InjectedMaps) = Cardinality(used)

C4_Witness ==
    /\ npc = "done"
    /\ LET pms == NotesPmsIn
       IN  \E i, j \in 1..Len(pms) :
              /\ i # j
              /\ EffectiveIcon(pms[i]) = EffectiveIcon(pms[j])
              /\ HideFlag(pms[i]) = HideFlag(pms[j])
              /\ Cardinality(MapsForIcon(EffectiveIcon(pms[i]))) = 1

\* C6: the post-processing changes nothing outside the Notes folder: every
\* other Folder and every placemark in it (name, coordinates, inline Style,
\* styleUrl) is as it was handed in, the elements the Document already had
\* are kept, and no placemark outside the Notes folder names an injected
\* StyleMap.
C6_OnlyNotesTouched ==
    npc = "done" =>
        LET notes == NotesIdx
        IN  /\ Len(modified_kml.folders) = Len(raw_kml.folders)
            /\ \A k \in 1..Len(raw_kml.folders) :
                  /\ modified_kml.folders[k].name = raw_kml.folders[k].name
                  /\ k # notes => modified_kml.folders[k] = raw_kml.folders[k]
            /\ SubSeq(modified_kml.top, 1, Len(raw_kml.top)) = raw_kml.top
            /\ \A k \in 1..Len(modified_kml.folders) : k # notes =>
                  \A j \in 1..Len(modified_kml.folders[k].pms) :
                      \A u \in 1..Len(modified_kml.folders[k].pms[j].styleUrls) :
                          \A m \in InjectedMaps :
                              modified_kml.folders[k].pms[j].styleUrls[u]
                                  # Url(modified_kml.top[m].id)

\* StyleMaps were injected into a document that has a styled placemark in
\* a Folder other than Notes
C6_Witness ==
    /\ npc = "done"
    /\ InjectedMaps # {}
    /\ \E k \in 1..Len(modified_kml.folders) :
          /\ k # NotesIdx
          /\ \E j \in 1..Len(modified_kml.folders[k].pms) :
                /\ modified_kml.folders[k].pms[j].styleUrls # <<>>
                /\ modified_kml.folders[k].pms[j].styles # <<>>

\* the styleUrl names one injected StyleMap whose normal and highlight
\* pairs each name one injected Style carrying icon h
NamesMapWithIcon(url, h) ==
    /\ Cardinality({m \in InjectedMaps : Url(modified_kml.top[m].id) = url}) = 1
    /\ \A m \in InjectedMaps : Url(modified_kml.top[m].id) = url =>
          /\ Cardinality(InjectedStyles(modified_kml.top[m].normal)) = 1
          /\ Cardinality(InjectedStyles(modified_kml.top[m].highlight)) = 1
          /\ \A s \in InjectedStyles(modified_kml.top[m].normal) :
                modified_kml.top[s].href = h
          /\ \A s \in InjectedStyles(modified_kml.top[m].highlight) :
                modified_kml.top[s].href = h

\* C8: after the post-processing of a document with at least one Notes
\* placemark, every Notes placemark has exactly one styleUrl child and no
\* inline Style child; the styleUrl names an injected StyleMap of the
\* Document whose normal and highlight pairs each resolve to an injected
\* Style, and both Styles carry the placemark's effective icon reference.
C8_NotesUseStyleMaps ==
    npc = "done" =>
        LET before == NotesPmsIn
            after == NotesPmsOut
        IN  Len(before) >= 1 =>
              /\ Len(after) = Len(before)
              /\ \A j \in 1..Len(after) :
                    /\ Len(after[j].styleUrls) = 1
                    /\ after[j].styles = <<>>
                    /\ NamesMapWithIcon(after[j].styleUrls[1], EffectiveIcon(before[j]))

\* one placemark had an inline icon and two styleUrl children, another took
\* its icon from a Document-level Style, or had none and got the fallback
C8_Witness ==
    /\ npc = "done"
    /\ LET before == NotesPmsIn
           after == NotesPmsOut
       IN  \E i, j \in 1..Len(before) :
              /\ before[i].styles # <<>>
              /\ Len(before[i].styleUrls) = 2
              /\ before[j].styles = <<>>
              /\ EffectiveIcon(before[j]) \in {H1, MAP_NOTE_FALLBACK}
              /\ Len(after[i].styleUrls) = 1
              /\ Len(after[j].styleUrls) = 1

-----------------------------------------------------------------------------
(* Generate KMZ: the hide flags, the folders of points, the post-processing *)

choose_note_icon_href(icon_value) ==
    LET v == safe_str(icon_value)
    IN  IF v = None THEN None
        ELSE IF Lower(v) = <<"m", "a", "p", " ", "n", "o", "t", "e">> THEN MAP_NOTE_ICON
        ELSE IF Lower(v) = <<"r", "e", "d", " ", "x">> THEN RED_X_ICON
        ELSE v

FalseWords == { <<"0">>, <<"f", "a", "l", "s", "e">>, <<"n", "o">>, <<"n">>, <<"f">> }
TrueWords == { <<"1">>, <<"t", "r", "u", "e">>, <<"y", "e", "s">>, <<"y">>, <<"t">> }

\* the hide_flag the loop computes for a row
RowHideFlag(row, hide_col) ==
    IF hide_col
    THEN IF row.Hide # NaN /\ Lower(Strip(row.Hide)) \in FalseWords THEN FALSE
         ELSE IF row.Hide # NaN /\ Lower(Strip(row.Hide)) \in TrueWords THEN TRUE
         ELSE TRUE
    ELSE TRUE

\* nm = str(safe_str(row.get("Name")) or "").strip()
RowKey(row) == IF safe_str(row.Name) = None THEN <<>> ELSE Strip(safe_str(row.Name))

\* notes_flags_by_name after the first n rows: a later row with the same
\* name replaces the entry of an earlier one
RECURSIVE FlagsByName(_, _, _)
FlagsByName(rows, hide_col, n) ==
    IF n = 0 THEN <<>>
    ELSE LET f == FlagsByName(rows, hide_col, n - 1)
         IN  [x \in (DOMAIN f) \cup {RowKey(rows[n])} |->
                 IF x = RowKey(rows[n]) THEN RowHideFlag(rows[n], hide_col) ELSE f[x]]

\* kml.newfolder(name=...)
newfolder(d, name) == [d EXCEPT !.folders = Append(@, [name |-> name, pms |-> <<>>])]

\* folder.newpoint() with a name, coordinates and a style: simplekml writes
\* the style as a Style of the Document and a styleUrl in the Placemark
newpoint(d, name, coords, href, icon_color) ==
    [top |-> Append(d.top, StyleEl(Sid(Len(d.top)), href, icon_color, "", "")),
     folders |-> [d.folders EXCEPT ![Len(d.folders)].pms =
                     Append(@, Pm(name, coords, <<Url(Sid(Len(d.top)))>>, <<>>))]]

\* add_agm_point into the last folder
add_agm_point(d, row) ==
    IF ~Valid(row) THEN d
    ELSE newpoint(d, normalize_agm_name(row.Name), Point(row),
                  safe_str(row.Icon), normalize_color_value(row.IconColor))

\* add_note_point into the last folder
add_note_point(d, row) ==
    IF ~Valid(row) THEN d
    ELSE newpoint(d, IF safe_str(row.Name) = None THEN <<>> ELSE safe_str(row.Name),
                  Point(row), choose_note_icon_href(row.Icon), None)

RECURSIVE AddAgmPoints(_, _, _)
AddAgmPoints(d, rows, n) ==
    IF n = 0 THEN d ELSE add_agm_point(AddAgmPoints(d, rows, n - 1), rows[n])

RECURSIVE AddNotePoints(_, _, _)
AddNotePoints(d, rows, n) ==
    IF n = 0 THEN d ELSE add_note_point(AddNotePoints(d, rows, n - 1), rows[n])

\* the document kml.kml() gives: a folder for each sheet that is not empty
BuiltKml(agms, notes) ==
    LET d1 == IF agms = <<>> THEN NoDoc
              ELSE AddAgmPoints(newfolder(NoDoc, <<"A", "G", "M", "s">>), agms, Len(agms))
    IN  IF notes = <<>> THEN d1
        ELSE AddNotePoints(newfolder(d1, NotesName), notes, Len(notes))

\* the rows of the sheets of the model
HideCells == { NaN, <<" ", "Y", "e", "s">>, <<"N", "o", " ">>, <<"x">> }

IconCells == { NaN, <<"M", "a", "p", " ", "N", "o", "t", "e">>, H1 }

NoteRow(name, lat, icon, hide) ==
    [Name |-> name, Latitude |-> lat, Longitude |-> Num(2), Icon |-> icon,
     Hide |-> hide]

\* rows with coordinates and any icon, and rows without a Latitude
NoteRows(hides) ==
    { NoteRow(n, Num(0), i, h) : n \in {NameA, NameB}, i \in IconCells, h \in hides }
    \cup { NoteRow(n, BlankCell, NaN, h) : n \in {NameA, NameB}, h \in hides }

AgmSheets ==
    { <<>>,
      << [Name |-> <<"7">>, Latitude |-> Num(4), Longitude |-> Num(2),
          Icon |-> H2, IconColor |-> <<"r", "e", "d">>] >> }

NotesStart ==
    /\ df_agms \in AgmSheets
    /\ \E n \in 0..MaxNotes :
          \/ has_hide_col = TRUE /\ df_notes \in [1..n -> NoteRows(HideCells)]
          \/ has_hide_col = FALSE /\ df_notes \in [1..n -> NoteRows({NaN})]
    /\ notes_flags_by_name = <<>>
    /\ raw_kml = NoDoc
    /\ modified_kml = NoDoc
    /\ npc = "flags"

\* Build notes hide flags dict from df_notes
BuildFlags ==
    /\ npc = "flags"
    /\ notes_flags_by_name' = FlagsByName(df_notes, has_hide_col, Len(df_notes))
    /\ npc' = "build"
    /\ UNCHANGED <<df_agms, df_notes, has_hide_col, raw_kml, modified_kml>>
    /\ UNCHANGED not_note_vars

\* the folders of points are built and the document is written
BuildKml ==
    /\ npc = "build"
    /\ raw_kml' = BuiltKml(df_agms, df_notes)
    /\ npc' = "inject"
    /\ UNCHANGED <<df_agms, df_notes, has_hide_col, notes_flags_by_name, modified_kml>>
    /\ UNCHANGED not_note_vars

NotesNext == BuildFlags \/ BuildKml \/ Inject

-----------------------------------------------------------------------------
(* Claims about the Notes sheet *)

\* the rows of the Notes sheet that have coordinates, in row order: the
\* j-th of them made the j-th placemark of the Notes folder
ValidNoteRows ==
    LET RECURSIVE Go(_)
        Go(k) == IF k > Len(df_notes) THEN <<>>
                 ELSE IF Valid(df_notes[k]) THEN <<k>> \o Go(k + 1)
                 ELSE Go(k + 1)
    IN  Go(1)

\* the label states of the StyleMap a placemark names
NormalState(pm) ==
    { <<modified_kml.top[s].scale, modified_kml.top[s].color>> :
        s \in UNION { InjectedStyles(modified_kml.top[m].normal) :
                        m \in {m \in InjectedMaps :
                                  Url(modified_kml.top[m].id) = pm.styleUrls[1]} } }

HoverState(pm) ==
    { <<modified_kml.top[s].scale, modified_kml.top[s].color>> :
        s \in UNION { InjectedStyles(modified_kml.top[m].highlight) :
                        m \in {m \in InjectedMaps :
                                  Url(modified_kml.top[m].id) = pm.styleUrls[1]} } }

Recognised(cell) == cell # NaN /\ Lower(Strip(cell)) \in TrueWords \cup FalseWords

\* C5, on the rows whose cell holds one of the ten words the program knows:
\* when the Notes sheet has a HideNameUntilMouseOver column, the placemark
\* of every row with coordinates has a StyleMap whose normal state hides
\* the label (scale 0.01, colour 00ffffff) if and only if that row's own
\* value, stripped and lower-cased, is one of "1", "true", "yes", "y", "t",
\* and shows it (scale 1, colour ffffffff) otherwise, and whose highlight
\* state shows it, whatever the other rows of the sheet hold.
C5_AsStated ==
    (npc = "done" /\ has_hide_col) =>
        LET valid == ValidNoteRows
            after == NotesPmsOut
        IN  \A j \in 1..Len(valid) :
              LET row == df_notes[valid[j]]
                  pm == after[j]
              IN  Recognised(row.Hide) =>
                    /\ NormalState(pm) =
                          IF Lower(Strip(row.Hide)) \in TrueWords
                          THEN {<<"0.01", "00ffffff">>} ELSE {<<"1", "ffffffff">>}
                    /\ HoverState(pm) = {<<"1", "ffffffff">>}

-----------------------------------------------------------------------------
(* Specifications *)

AgmIdle == raw_name = NaN /\ agm_name = None /\ agm_pc = "idle"

LinesIdle ==
    /\ df = <<>> /\ has_color_col = FALSE /\ chosen_color = None
    /\ created_any = FALSE /\ seg = <<>> /\ seg_rows = <<>> /\ prev = NoPoint
    /\ li = 0 /\ folder = <<>> /\ lpc = "idle"

NotesIdle ==
    /\ df_agms = <<>> /\ df_notes = <<>> /\ has_hide_col = FALSE
    /\ notes_flags_by_name = <<>> /\ raw_kml = NoDoc /\ modified_kml = NoDoc
    /\ npc = "idle"

AgmInit == AgmStart /\ LinesIdle /\ NotesIdle

LinesInit == LinesStart /\ AgmIdle /\ NotesIdle

InjectInit == InjectStart /\ AgmIdle /\ LinesIdle

NotesInit == NotesStart /\ AgmIdle /\ LinesIdle

SpecAgm == AgmInit /\ [][AgmNext]_vars

SpecLines == LinesInit /\ [][LinesNext]_vars

SpecInject == InjectInit /\ [][InjectNext]_vars

SpecNotes == NotesInit /\ [][NotesNext]_vars

=============================================================================
